---- MODULE Spec2Model ----
(***************************************************************************)
(* Model of the two-phase MALDI-TOF templating application (src/app.py):   *)
(* the Streamlit session state, the Phase 1 and Phase 2 button handlers    *)
(* and the R scripts they generate and run.                                *)
(*                                                                         *)
(* Numbers.  An m/z value (an R double) is an integer count of 1/Scale     *)
(* mass units, so 1000.1 is 100010.  R writes a double as decimal text     *)
(* with 15 significant digits (write.csv, as.character), fewer than a      *)
(* double holds; in the model the text keeps multiples of TextQuantum      *)
(* units, one decimal digit fewer than a value holds.  A value such as     *)
(* 100149 therefore stands for a double whose last digits are lost in      *)
(* text (1001.4999999999999 is written as 1001.5).                         *)
(***************************************************************************)
EXTENDS Integers, Sequences, FiniteSets, TLC

VARIABLES
    template_created,      \* st.session_state.template_created
    template_data,         \* st.session_state.template_data
    processing_params,     \* st.session_state.processing_params
    r_packages_installed,  \* st.session_state.r_packages_installed
    run,                   \* what the last button handler did and produced
    frozen,                \* history: what the last successful Phase 1 run stored, None
                           \* at the start and after a full clear
    input                  \* the input of the pure-function specifications

vars == <<template_created, template_data, processing_params,
          r_packages_installed, run, frozen, input>>

(***************************************************************************)
(* Numeric helpers                                                         *)
(***************************************************************************)
Scale == 100

TextQuantum == 10

Abs(x) == IF x < 0 THEN -x ELSE x

\* R round(x): to the nearest integer, an exact half to the even integer.
RRound(v) ==
    LET q == v \div Scale
        r == v % Scale
    IN  IF 2 * r < Scale THEN q
        ELSE IF 2 * r > Scale THEN q + 1
        ELSE IF q % 2 = 0 THEN q ELSE q + 1

\* A double written as decimal text with 15 significant digits and read back.
ToText15(v) ==
    LET q == v \div TextQuantum
        r == v % TextQuantum
    IN  IF 2 * r < TextQuantum THEN q * TextQuantum
        ELSE IF 2 * r > TextQuantum THEN (q + 1) * TextQuantum
        ELSE IF q % 2 = 0 THEN q * TextQuantum ELSE (q + 1) * TextQuantum

\* paste0("mz_", round(x))
FeatureId(v) == <<"mz_", RRound(v)>>

RECURSIVE SortInts(_)
\* sort(): ascending
SortInts(S) ==
    IF S = {} THEN <<>>
    ELSE LET m == CHOOSE a \in S : \A b \in S : a <= b
         IN  <<m>> \o SortInts(S \ {m})

SeqRange(s) == {s[i] : i \in 1..Len(s)}

(***************************************************************************)
(* Phase 1 R script, template building: binPeaks, feature_mz,              *)
(* feature_template, training matrix                                       *)
(***************************************************************************)
BinTolerance == 2

\* binPeaks pools the peaks of all spectra: one entry per peak, its mass and
\* the index of the spectrum (sample) it comes from.
Pool(train_peaks) ==
    UNION {{[mass |-> train_peaks[i][k], sample |-> i] : k \in 1..Len(train_peaks[i])} :
              i \in 1..Len(train_peaks)}

RECURSIVE SortPool(_)
\* sort.int(mass, index.return = TRUE): by mass, equal masses in sample order.
SortPool(S) ==
    IF S = {} THEN <<>>
    ELSE LET m == CHOOSE a \in S : \A b \in S :
                      \/ a.mass < b.mass
                      \/ a.mass = b.mass /\ a.sample <= b.sample
         IN  <<m>> \o SortPool(S \ {m})

RECURSIVE SumMass(_)
SumMass(p) == IF p = <<>> THEN 0 ELSE p[1].mass + SumMass(Tail(p))

NA == -1

\* binPeaks, method "strict": a bin is accepted when it holds no two peaks of
\* one sample and every peak deviates from the bin's mean by at most
\* tolerance RELATIVE to the mean, abs(mass - meanMass) / meanMass > tolerance
\* rejecting it.  The accepted bin's mass is the mean.
GrouperStrict(p) ==
    LET n   == Len(p)
        sum == SumMass(p)
    IN  IF \E i, j \in 1..n : i # j /\ p[i].sample = p[j].sample THEN NA
        ELSE IF \E i \in 1..n : Abs(n * p[i].mass - sum) > BinTolerance * sum THEN NA
        ELSE sum \div n

RECURSIVE BinRange(_)
\* binPeaks' loop on one range of the sorted pool (at least two peaks): divide
\* it at its largest gap (the first of equal gaps), then accept each side as a
\* bin or divide it again.
BinRange(p) ==
    LET n      == Len(p)
        gap(i) == p[i + 1].mass - p[i].mass
        gapIdx == CHOOSE i \in 1..(n - 1) :
                      /\ \A j \in 1..(n - 1) : gap(j) <= gap(i)
                      /\ \A j \in 1..(i - 1) : gap(j) < gap(i)
        Side(s) == LET g == GrouperStrict(s)
                   IN  IF g = NA THEN BinRange(s)
                       ELSE [i \in 1..Len(s) |-> [mass |-> g, sample |-> s[i].sample]]
    IN  Side(SubSeq(p, 1, gapIdx)) \o Side(SubSeq(p, gapIdx + 1, n))

\* train_binned <- binPeaks(train_peaks, tolerance = 2): the pooled peaks with
\* every mass replaced by its bin's mass.
binPeaks(train_peaks) == BinRange(SortPool(Pool(train_peaks)))

\* feature_mz <- sort(as.numeric(unique(unlist(lapply(train_binned, mass)))))
feature_mz(train_binned) == SortInts({train_binned[i].mass : i \in 1..Len(train_binned)})

\* feature_template <- data.frame(feature_id = paste0("mz_", round(feature_mz)),
\*                                mz = feature_mz), as write.csv writes it.
feature_template(fmz) ==
    [j \in 1..Len(fmz) |-> [feature_id |-> FeatureId(fmz[j]), mz |-> ToText15(fmz[j])]]

\* intensityMatrix(train_binned, avgSpectra): one column per distinct bin mass,
\* ascending, named by the mass as text; the script re-reads the names as
\* numbers, rounds them and renames the columns paste0("mz_", ...).
train_colnames(train_binned) ==
    LET uniqueMass  == SortInts({train_binned[i].mass : i \in 1..Len(train_binned)})
        bin_centers == [j \in 1..Len(uniqueMass) |-> ToText15(uniqueMass[j])]
    IN  [j \in 1..Len(bin_centers) |-> FeatureId(bin_centers[j])]

\* params_df, the parameter echo written to processing_params.csv
params_df(params) ==
    [halfWindowSize |-> params.halfWindowSize,
     SNR            |-> params.SNR,
     tolerance      |-> params.tolerance,
     iterations     |-> params.iterations,
     skip_alignment |-> params.skip_alignment]

(***************************************************************************)
(* Alignment block of the two R scripts.  The environment decides whether  *)
(* a call of alignSpectra succeeds on the data: env.std_ok for the         *)
(* standard arguments, env.relaxed_ok for the relaxed ones.  SNR is in     *)
(* tenths (2.0 is 20), tolerance in 1/10000 (0.008 is 80).                 *)
(*                                                                         *)
(* Log lines (cat) are named:                                              *)
(*   align_start         "对齐平均谱..." / "对齐验证集光谱..."             *)
(*   align_done          "对齐完成"                                        *)
(*   align_failed        "对齐失败: %s"                                    *)
(*   try_relaxed         "尝试使用宽松参数..."                             *)
(*   std_failed_try_relaxed  "标准对齐失败，尝试放宽参数..."               *)
(*   error_message       "错误信息: %s"                                    *)
(*   relaxed_done        "使用宽松参数对齐成功"                            *)
(*   relaxed_failed      "宽松参数仍失败，跳过对齐..." /                   *)
(*                       "放宽参数仍失败，跳过对齐步骤..."                 *)
(*   warn_unaligned      "警告: 光谱对齐失败，将使用未对齐的数据继续"      *)
(*   continue_unaligned  "将继续使用未对齐的光谱"                          *)
(***************************************************************************)
Max(a, b) == IF a >= b THEN a ELSE b

\* alignSpectra(..., halfWindowSize, SNR, tolerance, warpingMethod = "lowess")
\* with the arguments the script text holds.
StandardAttempt(params, env) ==
    [kind |-> "standard", evaluated |-> TRUE,
     halfWindowSize |-> params.halfWindowSize,
     SNR |-> params.SNR,
     tolerance |-> params.tolerance,
     ok |-> env.std_ok]

\* Phase 1's relaxed call sits in a plain (not f-) string nested in the
\* f-string: its text reaches R as written, {params['halfWindowSize']} and
\* all.  R has no object params, so evaluating the arguments raises an error,
\* which the inner tryCatch catches.
Phase1RelaxedAttempt(params, env) ==
    [kind |-> "relaxed", evaluated |-> FALSE,
     halfWindowSize |-> 0, SNR |-> 0, tolerance |-> 0,
     ok |-> FALSE]

\* Phase 2's relaxed call: SNR = max(1.5, SNR - 0.5), tolerance = tolerance * 1.5
Phase2RelaxedAttempt(params, env) ==
    [kind |-> "relaxed", evaluated |-> TRUE,
     halfWindowSize |-> params.halfWindowSize,
     SNR |-> Max(15, params.SNR - 5),
     tolerance |-> (params.tolerance * 3) \div 2,
     ok |-> env.relaxed_ok]

\* Variant of Phase1Align: success is reported without looking at what the
\* attempt did.
Phase1AlignUnchecked(params, env) ==
    IF params.skip_alignment
    THEN [attempts |-> <<>>, log |-> <<>>, aligned_by |-> "none"]
    ELSE [attempts |-> <<StandardAttempt(params, env)>>,
          log |-> <<"align_start", "align_done">>,
          aligned_by |-> "standard"]

\* Phase 1, "对齐（可选，带容错）": the block is generated only when
\* skip_alignment is false; the relaxed retry only when relaxed_params is true.
Phase1Align(params, env) ==
    IF params.skip_alignment
    THEN [attempts |-> <<>>, log |-> <<>>, aligned_by |-> "none"]
    ELSE LET std == StandardAttempt(params, env)
         IN  IF std.ok
             THEN [attempts |-> <<std>>,
                   log |-> <<"align_start", "align_done">>,
                   aligned_by |-> "standard"]
             ELSE IF ~params.relaxed_params
             THEN [attempts |-> <<std>>,
                   log |-> <<"align_start", "align_failed", "warn_unaligned">>,
                   aligned_by |-> "none"]
             ELSE LET rel == Phase1RelaxedAttempt(params, env)
                  IN  IF rel.ok
                      THEN [attempts |-> <<std, rel>>,
                            log |-> <<"align_start", "align_failed", "try_relaxed",
                                      "relaxed_done">>,
                            aligned_by |-> "relaxed"]
                      ELSE [attempts |-> <<std, rel>>,
                            log |-> <<"align_start", "align_failed", "try_relaxed",
                                      "relaxed_failed", "warn_unaligned">>,
                            aligned_by |-> "none"]

\* Phase 2, "对齐（增加容错）": no test of skip_alignment or relaxed_params.
Phase2Align(params, env) ==
    LET std == StandardAttempt(params, env)
    IN  IF std.ok
        THEN [attempts |-> <<std>>,
              log |-> <<"align_start", "align_done">>,
              aligned_by |-> "standard"]
        ELSE LET rel == Phase2RelaxedAttempt(params, env)
             IN  IF rel.ok
                 THEN [attempts |-> <<std, rel>>,
                       log |-> <<"align_start", "std_failed_try_relaxed", "error_message",
                                 "relaxed_done">>,
                       aligned_by |-> "relaxed"]
                 ELSE [attempts |-> <<std, rel>>,
                       log |-> <<"align_start", "std_failed_try_relaxed", "error_message",
                                 "relaxed_failed", "continue_unaligned">>,
                       aligned_by |-> "none"]

(***************************************************************************)
(* Phase 2 R script: extraction against the template                       *)
(***************************************************************************)
MatchRadius == 2

\* Variant of Which: an entry at exactly the radius is left out.
WhichOpen(spec, target_mz) ==
    {k \in 1..Len(spec.mass) : Abs(spec.mass[k] - target_mz) < MatchRadius * Scale}

\* idx <- which(abs(spec@mass - target_mz) <= 2)
Which(spec, target_mz) ==
    {k \in 1..Len(spec.mass) : Abs(spec.mass[k] - target_mz) <= MatchRadius * Scale}

\* Variant of ClosestIdx: of equally distant entries the last one is taken.
ClosestIdxLast(spec, idx, target_mz) ==
    CHOOSE k \in idx : \A l \in idx :
        \/ Abs(spec.mass[k] - target_mz) < Abs(spec.mass[l] - target_mz)
        \/ Abs(spec.mass[k] - target_mz) = Abs(spec.mass[l] - target_mz) /\ k >= l

\* idx[which.min(abs(spec@mass[idx] - target_mz))]: which.min gives the first
\* position of the minimum, and idx is ascending.
ClosestIdx(spec, idx, target_mz) ==
    CHOOSE k \in idx : \A l \in idx :
        \/ Abs(spec.mass[k] - target_mz) < Abs(spec.mass[l] - target_mz)
        \/ Abs(spec.mass[k] - target_mz) = Abs(spec.mass[l] - target_mz) /\ k <= l

\* One cell intensity_matrix[i, j]; the matrix starts as all 0.
MatchCell(spec, target_mz) ==
    IF Len(spec.mass) > 0
    THEN LET idx == Which(spec, target_mz)
         IN  IF idx # {}
             THEN spec.intensity[ClosestIdx(spec, idx, target_mz)]
             ELSE 0
    ELSE 0

\* The two loops over samples and features.
intensity_matrix(validation_spectra, template_mz) ==
    [i \in 1..Len(validation_spectra) |->
        [j \in 1..Len(template_mz) |-> MatchCell(validation_spectra[i], template_mz[j])]]

\* colnames(intensity_matrix) <- paste0("mz_", round(template_mz))
valid_colnames(template_mz) ==
    [j \in 1..Len(template_mz) |-> FeatureId(template_mz[j])]

\* sample_names <- sapply(validation_spectra, function(s) basename(s@metaData$file))
sample_names(validation_spectra) ==
    [i \in 1..Len(validation_spectra) |-> validation_spectra[i].file]

(***************************************************************************)
(* The generated scripts as run by run_r_script.  env.fault is what goes   *)
(* wrong outside the alignment block:                                      *)
(*   none           nothing                                                *)
(*   r_error_early  R stops with an error before the alignment block       *)
(*   r_error_late   R stops with an error after it: in Phase 1 between      *)
(*                  writing feature_template.csv and the training matrix,  *)
(*                  in Phase 2 before the validation matrix is written     *)
(*   timeout        subprocess.TimeoutExpired at the same point            *)
(*   read_error     the script ends well, pd.read_csv raises               *)
(* files is what the temporary directory holds when the script ends.       *)
(***************************************************************************)
NoResult ==
    [returncode |-> 1, log |-> <<>>, stdout |-> <<>>, attempts |-> <<>>,
     aligned_by |-> "none", reached_matching |-> FALSE,
     feature_template |-> <<>>, columns |-> <<>>, rows |-> <<>>, cells |-> <<>>,
     params_csv |-> <<>>, files |-> {}]

\* The Phase 1 script on the peaks detectPeaks finds in the group averages.
Phase1Script(params, train_peaks, env) ==
    LET al     == Phase1Align(params, env)
        binned == binPeaks(train_peaks)
        fmz    == feature_mz(binned)
        sofar  == <<"start">> \o al.log
        uploaded == {"process.R", "train"}
    IN  IF env.fault = "r_error_early"
        THEN [NoResult EXCEPT !.log = <<"start">>, !.stdout = <<"start">>,
                              !.files = uploaded]
        ELSE IF env.fault = "r_error_late"
        THEN [NoResult EXCEPT !.log = sofar, !.stdout = sofar,
                              !.attempts = al.attempts, !.aligned_by = al.aligned_by,
                              !.files = uploaded \cup {"feature_template.csv"}]
        ELSE IF env.fault = "timeout"
        THEN [NoResult EXCEPT !.log = sofar, !.stdout = <<>>,
                              !.attempts = al.attempts, !.aligned_by = al.aligned_by,
                              !.files = uploaded \cup {"feature_template.csv"}]
        ELSE [returncode |-> 0,
              log |-> sofar \o <<"done">>, stdout |-> sofar \o <<"done">>,
              attempts |-> al.attempts, aligned_by |-> al.aligned_by,
              reached_matching |-> FALSE,
              feature_template |-> feature_template(fmz),
              columns |-> train_colnames(binned),
              rows |-> <<>>, cells |-> <<>>,
              params_csv |-> <<params_df(params)>>,
              files |-> uploaded \cup {"feature_template.csv", "peak_intensity_train.csv",
                                       "processing_params.csv"}]

\* Variant of Phase2Script: the alignment block is generated from the values
\* the sidebar shows (its defaults), whatever parameters are handed in.
Phase2ScriptFromSidebar(params, template, validation_spectra, env) ==
    LET sidebar == [halfWindowSize |-> 90, SNR |-> 20, tolerance |-> 80,
                    iterations |-> 100, skip_alignment |-> FALSE, relaxed_params |-> TRUE]
        al      == Phase2Align(sidebar, env)
    IN  [NoResult EXCEPT !.log = <<"start">> \o al.log, !.stdout = <<"start">> \o al.log,
                         !.attempts = al.attempts, !.aligned_by = al.aligned_by]

\* The Phase 2 script on the stored template and the validation spectra as
\* they are when the extraction loop starts.
Phase2Script(params, template, validation_spectra, env) ==
    LET al          == Phase2Align(params, env)
        template_mz == [j \in 1..Len(template) |-> template[j].mz]
        sofar       == <<"start">> \o al.log
        uploaded    == {"process.R", "validation", "feature_template.csv"}
    IN  IF env.fault = "r_error_early"
        THEN [NoResult EXCEPT !.log = <<"start">>, !.stdout = <<"start">>,
                              !.files = uploaded]
        ELSE IF env.fault = "r_error_late"
        THEN [NoResult EXCEPT !.log = sofar, !.stdout = sofar,
                              !.attempts = al.attempts, !.aligned_by = al.aligned_by,
                              !.files = uploaded]
        ELSE IF env.fault = "timeout"
        THEN [NoResult EXCEPT !.log = sofar, !.stdout = <<>>,
                              !.attempts = al.attempts, !.aligned_by = al.aligned_by,
                              !.files = uploaded]
        ELSE IF Len(validation_spectra) = 0
        \* for (i in 1:n_samples) with n_samples = 0 reads validation_spectra[[1]]
        THEN [NoResult EXCEPT !.log = sofar, !.stdout = sofar,
                              !.attempts = al.attempts, !.aligned_by = al.aligned_by,
                              !.files = uploaded]
        ELSE [returncode |-> 0,
              log |-> sofar \o <<"done">>, stdout |-> sofar \o <<"done">>,
              attempts |-> al.attempts, aligned_by |-> al.aligned_by,
              reached_matching |-> TRUE,
              feature_template |-> <<>>,
              columns |-> valid_colnames(template_mz),
              rows |-> sample_names(validation_spectra),
              cells |-> intensity_matrix(validation_spectra, template_mz),
              params_csv |-> <<>>,
              files |-> uploaded \cup {"peak_intensity_validation.csv"}]

\* pd.read_csv on a written matrix: a header that repeats an earlier one gets
\* the number of its earlier occurrences appended ("mz_1000", "mz_1000.1", ...).
read_csv_columns(header) ==
    [j \in 1..Len(header) |->
        LET earlier == Cardinality({i \in 1..(j - 1) : header[i] = header[j]})
        IN  IF earlier = 0 THEN header[j] ELSE header[j] \o <<earlier>>]

(***************************************************************************)
(* Session state and the button handlers                                   *)
(***************************************************************************)
NoneValue == [kind |-> "None"]

Absent == [kind |-> "absent"]

Dict(p) == [kind |-> "dict", value |-> p]

DataFrame(rows) == [kind |-> "DataFrame", rows |-> rows]

\* Variant of rmtree: the directory is left as the script left it.
rmtree_nothing(files) == files

\* finally: shutil.rmtree(temp_dir, ignore_errors=True): what is left of the
\* temporary directory's content.
rmtree(files) == {}

\* No handler has run in this script run.  temp_dir is what the handler leaves
\* of its temporary directory.
NoRun ==
    [phase |-> 0, outcome |-> "none", params |-> NoneValue, template |-> NoneValue,
     result |-> NoResult, temp_dir |-> {}]

\* The sidebar's processing_params dict: the sliders and the two checkboxes.
\* The SNR slider is moved only with the checkboxes at their defaults.
SidebarParams ==
    {p \in [halfWindowSize : {90}, SNR : {15, 20}, tolerance : {80}, iterations : {100},
            skip_alignment : BOOLEAN, relaxed_params : BOOLEAN] :
        p.SNR # 20 => (~p.skip_alignment /\ p.relaxed_params)}

Faults == {"none", "r_error_early", "r_error_late", "timeout", "read_error"}

\* What the environment does to one run; the fields that cannot matter are fixed.
Envs ==
    {e \in [std_ok : BOOLEAN, relaxed_ok : BOOLEAN, fault : Faults] :
        /\ e.std_ok => e.relaxed_ok
        /\ e.fault \in {"r_error_early", "read_error"} => e.std_ok}

\* r_packages_installed after the handler's "if ... is None" check
PackagesAfterCheck(check) ==
    IF r_packages_installed = "None"
    THEN (IF check THEN "True" ELSE "False")
    ELSE r_packages_installed

Checks == IF r_packages_installed = "None" THEN BOOLEAN ELSE {TRUE}

\* Training uploads: per group average, the detected peak masses (ascending).
TrainCohorts ==
    { << <<100010>>, <<100030>> >>,
      << <<100010, 101000>>, <<100030>> >>,
      << <<100149>>, <<500000>> >>,
      << <<100000, 100500>>, <<100000, 100500>> >>,
      << <<100010>>, <<101000>>, <<500000>> >> }

Spectrum(f, m, i) == [file |-> f, mass |-> m, intensity |-> i]

\* Validation uploads: the spectra in the order importTxt returns them.
ValidationSets ==
    { << >>,
      << Spectrum("a.txt", <<100000>>, <<7>>) >>,
      << Spectrum("a.txt", <<99850, 100150>>, <<3, 9>>), Spectrum("b.txt", << >>, << >>) >>,
      << Spectrum("b.txt", << >>, << >>), Spectrum("a.txt", <<99850, 100150>>, <<3, 9>>) >>,
      << Spectrum("c.txt", <<100150, 500200>>, <<4, 0>>) >> }

\* The uploads tried with one environment: when the run fails whatever was
\* uploaded, one upload stands for all.
UploadsFor(uploads, env) ==
    IF env.fault = "none" THEN uploads
    ELSE {CHOOSE u \in uploads : Len(u) > 0}

Init ==
    /\ template_created = FALSE
    /\ template_data = NoneValue
    /\ processing_params = Absent
    /\ r_packages_installed = "None"
    /\ run = NoRun
    /\ frozen = NoneValue
    /\ input = NoneValue

\* Variant of clear_session_data: processing_params is not saved and restored.
clear_session_data_drops_params(keep_template) ==
    /\ IF keep_template
       THEN /\ template_created' = template_created
            /\ template_data' = template_data
       ELSE /\ template_created' = FALSE
            /\ template_data' = NoneValue
    /\ processing_params' = Absent
    /\ r_packages_installed' = "None"

\* Variant of clear_session_data: the full clear leaves template_created as it is.
clear_session_data_keeps_flag(keep_template) ==
    /\ template_created' = template_created
    /\ IF keep_template
       THEN /\ template_data' = template_data
            /\ processing_params' =
                   IF processing_params = Absent THEN NoneValue ELSE processing_params
       ELSE /\ template_data' = NoneValue
            /\ processing_params' = Absent
    /\ r_packages_installed' = "None"

\* clear_session_data(keep_template) and the rerun's initialisation block
clear_session_data(keep_template) ==
    /\ IF keep_template
       THEN /\ template_created' = template_created
            /\ template_data' = template_data
            /\ processing_params' =
                   IF processing_params = Absent THEN NoneValue ELSE processing_params
       ELSE /\ template_created' = FALSE
            /\ template_data' = NoneValue
            /\ processing_params' = Absent
    /\ r_packages_installed' = "None"

\* Sidebar button "清理缓存 (保留模版)"
ClearKeepTemplate ==
    /\ clear_session_data(TRUE)
    /\ run' = NoRun
    /\ UNCHANGED <<frozen, input>>

\* Sidebar button "完全清空"
ClearAll ==
    /\ clear_session_data(FALSE)
    /\ run' = NoRun
    /\ frozen' = NoneValue
    /\ UNCHANGED input

\* Sidebar button "检查R包状态"
CheckRPackages(check) ==
    /\ r_packages_installed = "None"
    /\ r_packages_installed' = (IF check THEN "True" ELSE "False")
    /\ run' = NoRun
    /\ UNCHANGED <<template_created, template_data, processing_params, frozen, input>>

\* Sidebar button "立即安装R包"
InstallRPackages(installed) ==
    /\ r_packages_installed = "False"
    /\ r_packages_installed' = (IF installed THEN "True" ELSE "False")
    /\ run' = NoRun
    /\ UNCHANGED <<template_created, template_data, processing_params, frozen, input>>

\* "建立训练集模版" pressed, the handler stops at the R or the package check.
Phase1Stopped(r_installed, check) ==
    /\ ~r_installed \/ PackagesAfterCheck(check) # "True"
    /\ r_packages_installed' =
           IF r_installed THEN PackagesAfterCheck(check) ELSE r_packages_installed
    /\ run' = [NoRun EXCEPT !.phase = 1, !.outcome = "stopped"]
    /\ UNCHANGED <<template_created, template_data, processing_params, frozen, input>>

\* "建立训练集模版" pressed: the script is generated from the sidebar's
\* processing_params, run, and its results are read and stored.
Phase1Run(params, train_peaks, env, check) ==
    LET res == Phase1Script(params, train_peaks, env)
    IN  /\ PackagesAfterCheck(check) = "True"
        /\ r_packages_installed' = "True"
        /\ IF res.returncode = 0 /\ env.fault # "read_error"
           THEN /\ template_created' = TRUE
                /\ template_data' = DataFrame(res.feature_template)
                /\ processing_params' = Dict(params)
                /\ frozen' = [kind |-> "stored",
                               template_data |-> DataFrame(res.feature_template),
                               processing_params |-> Dict(params)]
                /\ run' = [phase |-> 1, outcome |-> "success", params |-> Dict(params),
                           template |-> DataFrame(res.feature_template),
                           result |-> [res EXCEPT !.columns = read_csv_columns(res.columns)],
                           temp_dir |-> rmtree(res.files)]
           ELSE /\ UNCHANGED <<template_created, template_data, processing_params, frozen>>
                /\ run' = [phase |-> 1,
                           outcome |-> IF res.returncode = 0 THEN "exception" ELSE "failed",
                           params |-> Dict(params), template |-> NoneValue,
                           result |-> [res EXCEPT !.feature_template = <<>>,
                                                  !.columns = <<>>, !.params_csv = <<>>],
                           temp_dir |-> rmtree(res.files)]
        /\ UNCHANGED input

\* Tab 2 without a template: the warning "请先完成阶段1" and no upload, no button.
Phase2Blocked ==
    /\ ~template_created
    /\ run' = [NoRun EXCEPT !.phase = 2, !.outcome = "blocked"]
    /\ UNCHANGED <<template_created, template_data, processing_params,
                   r_packages_installed, frozen, input>>

\* "处理验证集" pressed, the handler stops at the R or the package check.
Phase2Stopped(r_installed, check) ==
    /\ template_created
    /\ ~r_installed \/ PackagesAfterCheck(check) # "True"
    /\ r_packages_installed' =
           IF r_installed THEN PackagesAfterCheck(check) ELSE r_packages_installed
    /\ run' = [NoRun EXCEPT !.phase = 2, !.outcome = "stopped"]
    /\ UNCHANGED <<template_created, template_data, processing_params, frozen, input>>

\* "处理验证集" pressed: the template and the parameters come from the session.
Phase2Run(validation_spectra, env, check) ==
    /\ template_created
    /\ PackagesAfterCheck(check) = "True"
    /\ r_packages_installed' = "True"
    /\ IF template_data.kind # "DataFrame" \/ processing_params.kind # "dict"
       \* None has no to_csv, a missing or None processing_params no ['halfWindowSize']
       THEN run' = [NoRun EXCEPT !.phase = 2, !.outcome = "exception",
                                 !.params = processing_params, !.template = template_data,
                                 !.temp_dir = rmtree({"validation"})]
       ELSE LET res == Phase2Script(processing_params.value, template_data.rows,
                                    validation_spectra, env)
            IN  run' = [phase |-> 2,
                        outcome |-> IF res.returncode # 0 THEN "failed"
                                    ELSE IF env.fault = "read_error" THEN "exception"
                                    ELSE "success",
                        params |-> processing_params, template |-> template_data,
                        result |-> IF res.returncode = 0 /\ env.fault # "read_error"
                                   THEN [res EXCEPT !.columns = read_csv_columns(res.columns)]
                                   ELSE [res EXCEPT !.columns = <<>>, !.rows = <<>>,
                                                    !.cells = <<>>],
                        temp_dir |-> rmtree(res.files)]
    /\ UNCHANGED <<template_created, template_data, processing_params, frozen, input>>

Next ==
    \/ ClearKeepTemplate
    \/ ClearAll
    \/ \E check \in BOOLEAN : CheckRPackages(check)
    \/ \E installed \in BOOLEAN : InstallRPackages(installed)
    \/ \E r_installed \in BOOLEAN, check \in Checks : Phase1Stopped(r_installed, check)
    \/ \E params \in SidebarParams, env \in Envs, check \in Checks :
          \E train_peaks \in UploadsFor(TrainCohorts, env) :
              Phase1Run(params, train_peaks, env, check)
    \/ Phase2Blocked
    \/ \E r_installed \in BOOLEAN, check \in Checks : Phase2Stopped(r_installed, check)
    \/ \E env \in Envs, check \in Checks :
          \E validation_spectra \in UploadsFor(ValidationSets, env) :
              Phase2Run(validation_spectra, env, check)

Spec == Init /\ [][Next]_vars

(***************************************************************************)
(* Template building on bounded inputs: every training cohort of at most   *)
(* MaxGroups group averages with at most MaxPeaks detected peaks each      *)
(* (and two peaks or more overall), run through the Phase 1 handler with   *)
(* the sidebar's defaults and nothing going wrong.                         *)
(***************************************************************************)
MaxGroups == 2

MaxPeaks == 2

MzDomain == {100010, 100030, 100149, 101000, 500000}

PeakLists == {SortInts(S) : S \in {T \in SUBSET MzDomain : Cardinality(T) <= MaxPeaks}}

RECURSIVE CountPeaks(_)
CountPeaks(c) == IF c = <<>> THEN 0 ELSE Len(c[1]) + CountPeaks(Tail(c))

BoundedCohorts ==
    {c \in UNION {[1..g -> PeakLists] : g \in 1..MaxGroups} : CountPeaks(c) >= 2}

\* The sidebar as it is first drawn: the sliders' and checkboxes' defaults.
DefaultParams ==
    [halfWindowSize |-> 90, SNR |-> 20, tolerance |-> 80, iterations |-> 100,
     skip_alignment |-> FALSE, relaxed_params |-> TRUE]

QuietEnv == [std_ok |-> TRUE, relaxed_ok |-> TRUE, fault |-> "none"]

InitTemplate ==
    /\ template_created = FALSE
    /\ template_data = NoneValue
    /\ processing_params = Absent
    /\ r_packages_installed = "True"
    /\ run = NoRun
    /\ frozen = NoneValue
    /\ input \in {[kind |-> "train_peaks", value |-> c] : c \in BoundedCohorts}

NextTemplate ==
    /\ run.phase = 0
    /\ Phase1Run(DefaultParams, input.value, QuietEnv, TRUE)

SpecTemplate == InitTemplate /\ [][NextTemplate]_vars

(***************************************************************************)
(* Extraction on bounded inputs: every stored template of at most          *)
(* MaxFeatures features and every spectrum of at most MaxEntries entries   *)
(* (mass axis strictly increasing), run through the Phase 2 handler.       *)
(***************************************************************************)
MaxFeatures == 2

MaxEntries == 2

TemplateMzDomain == {100000, 100500, 100149}

SpectrumMassDomain == {99800, 99850, 100000, 100150, 100210}

IntensityDomain == {0, 3, 9}

BoundedTemplates ==
    {feature_template(SortInts(S)) :
        S \in {T \in SUBSET TemplateMzDomain : T # {} /\ Cardinality(T) <= MaxFeatures}}

BoundedSpectra ==
    UNION {{Spectrum("a.txt", SortInts(S), i) : i \in [1..Cardinality(S) -> IntensityDomain]} :
              S \in {T \in SUBSET SpectrumMassDomain : Cardinality(T) <= MaxEntries}}

InitMatch ==
    /\ template_created = TRUE
    /\ template_data \in {DataFrame(t) : t \in BoundedTemplates}
    /\ processing_params = Dict(DefaultParams)
    /\ r_packages_installed = "True"
    /\ run = NoRun
    /\ frozen = [kind |-> "stored", template_data |-> template_data,
                 processing_params |-> processing_params]
    /\ input \in {[kind |-> "spectrum", value |-> s] : s \in BoundedSpectra}

NextMatch ==
    /\ run.phase = 0
    /\ Phase2Run(<<input.value>>, QuietEnv, TRUE)

SpecMatch == InitMatch /\ [][NextMatch]_vars

(***************************************************************************)
(* Properties                                                              *)
(***************************************************************************)
Phase1Succeeded == run.phase = 1 /\ run.outcome = "success"

Phase2Succeeded == run.phase = 2 /\ run.outcome = "success"

\* Phase 2 got past the gate of tab 2 and into the handler's try block.
Phase2Started == run.phase = 2 /\ run.outcome \in {"success", "failed", "exception"}

\* C1: the validation matrix of a Phase 2 run has one column per entry of the
\* stored template, in template order, and the j-th column header is the
\* feature_id of the j-th template entry.
C1_ValidationHeadersAreTemplateIds ==
    Phase2Succeeded =>
        /\ Len(run.result.columns) = Len(run.template.rows)
        /\ \A j \in 1..Len(run.template.rows) :
               run.result.columns[j] = run.template.rows[j].feature_id

\* C2: the training matrix of a successful Phase 1 run has one feature column
\* per template entry, and the i-th feature column header is the feature_id of
\* the i-th template entry.
C2_TrainingHeadersAreTemplateIds ==
    Phase1Succeeded =>
        /\ Len(run.result.columns) = Len(run.result.feature_template)
        /\ \A i \in 1..Len(run.result.feature_template) :
               run.result.columns[i] = run.result.feature_template[i].feature_id

\* C3: a Phase 2 run starts only when an earlier Phase 1 run succeeded and
\* stored a template that no full clear has wiped since, and it works on that
\* template; without such a template the gate is closed and the matching step
\* is never executed.
C3_Phase2OnlyOnStoredTemplate ==
    /\ Phase2Started =>
           /\ frozen.kind = "stored"
           /\ run.template = frozen.template_data
    /\ frozen.kind # "stored" =>
           /\ ~template_created
           /\ ~(run.phase = 2 /\ run.result.reached_matching)

\* C3 witness: a Phase 2 run executed the matching step on the template that
\* the last successful Phase 1 run stored.
C3_Witness ==
    /\ Phase2Succeeded
    /\ run.result.reached_matching
    /\ frozen.kind = "stored"
    /\ run.template = frozen.template_data

\* The entries of the spectrum within absolute distance 2 of mz_f.
Near(spec, mz_f) ==
    {k \in 1..Len(spec.mass) :
        spec.mass[k] - mz_f <= 2 * Scale /\ mz_f - spec.mass[k] <= 2 * Scale}

Distance(spec, k, mz_f) ==
    IF spec.mass[k] >= mz_f THEN spec.mass[k] - mz_f ELSE mz_f - spec.mass[k]

\* C4: for the spectrum and every template feature with target mz_f, the matrix
\* cell is 0 when the spectrum has no entry within absolute distance 2 of mz_f
\* (an empty spectrum included), and otherwise the intensity of an entry within
\* distance 2.
C4_CellIsZeroOrIntensityInRadius ==
    Phase2Succeeded =>
        \A j \in 1..Len(run.template.rows) :
            LET near == Near(input.value, run.template.rows[j].mz)
                cell == run.result.cells[1][j]
            IN  /\ near = {} => cell = 0
                /\ near # {} => \E k \in near : cell = input.value.intensity[k]

\* C4 witness: a single peak at 1000.0 is assigned to the feature at 1000.0
\* while the feature at 1005.0 gets 0.
C4_Witness ==
    /\ Phase2Succeeded
    /\ input.value.mass = <<100000>>
    /\ input.value.intensity = <<9>>
    /\ [j \in 1..Len(run.template.rows) |-> run.template.rows[j].mz] = <<100000, 100500>>
    /\ run.result.cells = << <<9, 0>> >>

\* C5: when entries of the spectrum (mass axis strictly increasing) lie within
\* distance 2 of a template feature, the cell is the intensity of the entry that
\* is closest to the feature, and of two equally close entries the one with the
\* lower m/z.
C5_ClosestEntryLowerMassOnTie ==
    Phase2Succeeded =>
        \A j \in 1..Len(run.template.rows) :
            LET spec == input.value
                mz_f == run.template.rows[j].mz
                near == Near(spec, mz_f)
            IN  near # {} =>
                    \E k \in near :
                        /\ run.result.cells[1][j] = spec.intensity[k]
                        /\ \A l \in near :
                               \/ Distance(spec, k, mz_f) < Distance(spec, l, mz_f)
                               \/ /\ Distance(spec, k, mz_f) = Distance(spec, l, mz_f)
                                  /\ spec.mass[k] <= spec.mass[l]

\* C5 witness: peaks at 998.5 and 1001.5 against the feature at 1000.0 give the
\* intensity at 998.5.
C5_Witness ==
    /\ Phase2Succeeded
    /\ input.value.mass = <<99850, 100150>>
    /\ input.value.intensity = <<3, 9>>
    /\ run.template.rows[1].mz = 100000
    /\ run.result.cells[1][1] = 3

\* A handler generated and ran a script with these parameters.
RanScript == run.phase \in {1, 2} /\ run.params.kind = "dict"

\* C6: in every run that uses parameters with skip_alignment true, Phase 1 and
\* Phase 2 alike, no alignment attempt is made, standard or relaxed.
C6_SkipAlignmentBypassesAligner ==
    (RanScript /\ run.params.value.skip_alignment) => run.result.attempts = <<>>

\* C7: in both phases a relaxed attempt is made only after the standard attempt
\* failed and only when relaxed_params is enabled, and at most once; when every
\* attempt failed the script goes on with the unwarped spectra.
C7_RelaxedOnlyWhenEnabledAfterFailure ==
    RanScript =>
        LET a == run.result.attempts
        IN  /\ Cardinality({k \in 1..Len(a) : a[k].kind = "relaxed"}) <= 1
            /\ \A k \in 1..Len(a) :
                   a[k].kind = "relaxed" =>
                       /\ run.params.value.relaxed_params
                       /\ k = 2
                       /\ a[1].kind = "standard"
                       /\ ~a[1].ok
            /\ (\A k \in 1..Len(a) : ~a[k].ok) => run.result.aligned_by = "none"
            /\ (run.outcome = "success" /\ run.result.aligned_by = "none") =>
                   "done" \in SeqRange(run.result.log)

\* C8: the run log tells the alignment's terminal state.  It reports an
\* alignment success exactly when an attempt succeeded, it holds the warning
\* that unaligned data is used exactly when attempts were made and all failed,
\* and so it holds neither exactly when no attempt was made; the handler shows
\* the log of a successful run as the script wrote it.
C8_LogTellsAlignmentState ==
    run.phase \in {1, 2} =>
        LET a              == run.result.attempts
            log            == SeqRange(run.result.log)
            reportsSuccess == log \cap {"align_done", "relaxed_done"} # {}
            warns          == log \cap {"warn_unaligned", "continue_unaligned"} # {}
        IN  /\ reportsSuccess <=> (\E k \in 1..Len(a) : a[k].ok)
            /\ warns <=> (a # <<>> /\ \A k \in 1..Len(a) : ~a[k].ok)
            /\ run.outcome = "success" => run.result.stdout = run.result.log

\* C8 witness: both attempts of a run failed, the run went on and its log holds
\* the warning and no report of success.
C8_Witness ==
    /\ run.outcome = "success"
    /\ Len(run.result.attempts) = 2
    /\ \A k \in 1..2 : ~run.result.attempts[k].ok
    /\ "continue_unaligned" \in SeqRange(run.result.stdout)
    /\ "relaxed_done" \notin SeqRange(run.result.stdout)

\* C9: the template written by a successful Phase 1 run is strictly ascending
\* by mz, and no two of its entries lie within the binning tolerance 2 of each
\* other: peaks at 1000.1 and 1000.3 yield one feature, peaks at 1000.1 and
\* 1010.0 yield two.
C9_TemplateEntriesApart ==
    Phase1Succeeded =>
        LET t == run.result.feature_template
        IN  /\ \A j \in 1..(Len(t) - 1) : t[j].mz < t[j + 1].mz
            /\ \A i, j \in 1..Len(t) :
                   i < j => t[j].mz - t[i].mz > 2 * Scale
            /\ SeqRange(input.value[1]) \cup SeqRange(input.value[Len(input.value)])
                   = {100010, 100030} => Len(t) = 1
            /\ SeqRange(input.value[1]) \cup SeqRange(input.value[Len(input.value)])
                   = {100010, 101000} => Len(t) = 2

\* C10: the feature_id values of a template are pairwise distinct, and so are
\* the column headers of the matrices of both phases.
C10_FeatureIdsDistinct ==
    /\ Phase1Succeeded =>
           \A i, j \in 1..Len(run.result.feature_template) :
               i # j => run.result.feature_template[i].feature_id
                            # run.result.feature_template[j].feature_id
    /\ Phase2Succeeded =>
           \A i, j \in 1..Len(run.template.rows) :
               i # j => run.template.rows[i].feature_id # run.template.rows[j].feature_id
    /\ (Phase1Succeeded \/ Phase2Succeeded) =>
           \A i, j \in 1..Len(run.result.columns) :
               i # j => run.result.columns[i] # run.result.columns[j]

\* The handler's run failed: the script exited non-zero or timed out
\* ("failed"), or reading its results raised ("exception").
RunFailed(r) == r.phase \in {1, 2} /\ r.outcome \in {"failed", "exception"}

\* C11: a step in which a processing run fails yields no matrix and no template
\* from that run, leaves the session's template_created, template_data and
\* processing_params exactly as they were, and leaves nothing of the run's
\* temporary directory.
C11_FailedRunLeavesNothing ==
    [][RunFailed(run') =>
           /\ UNCHANGED <<template_created, template_data, processing_params>>
           /\ run'.result.feature_template = <<>>
           /\ run'.result.columns = <<>>
           /\ run'.result.cells = <<>>
           /\ run'.result.params_csv = <<>>
           /\ run'.phase = 1 => run'.template = NoneValue
           /\ run'.temp_dir = {}]_vars

\* C11 witness: a Phase 1 run timed out after the script had written a
\* template file, while the session holds the template of an earlier run.
C11_Witness ==
    /\ run.phase = 1
    /\ run.outcome = "failed"
    /\ run.result.stdout = <<>>
    /\ "feature_template.csv" \in run.result.files
    /\ run.temp_dir = {}
    /\ template_created
    /\ template_data = frozen.template_data
    /\ processing_params = frozen.processing_params

(***************************************************************************)
(* Phase 1 R script, label assignment and averaging.  An upload is the     *)
(* spectra's file names in the order importTxt returns them, the rows of   *)
(* the Excel sheet (file, group), and the peaks detectPeaks finds in the   *)
(* group averages.                                                         *)
(***************************************************************************)
NA_character == "NA"

\* train_labels <- samples$group[match(basename(file), samples$file)]: the
\* group of the first row naming the file, NA when no row does.
train_labels(spectra, samples) ==
    [i \in 1..Len(spectra) |->
        LET rows == {k \in 1..Len(samples) : samples[k].file = spectra[i]}
        IN  IF rows = {} THEN NA_character
            ELSE samples[CHOOSE k \in rows : \A l \in rows : k <= l].group]

RECURSIVE Unique(_)
\* unique(x): the distinct values in the order of their first occurrence
Unique(x) ==
    IF x = <<>> THEN <<>>
    ELSE LET init == Unique(SubSeq(x, 1, Len(x) - 1))
         IN  IF x[Len(x)] \in SeqRange(init) THEN init ELSE Append(init, x[Len(x)])

\* averageMassSpectra(training_spectra, labels = train_labels): the labels
\* become factor(labels, levels = unique(labels)), which has no level for NA,
\* and split() leaves out the spectra whose label is NA.  One average per
\* level, over the spectra carrying it.
averageMassSpectra(spectra, labels) ==
    LET IsLevel(g) == g # NA_character
        levels     == SelectSeq(Unique(labels), IsLevel)
    IN  [g \in 1..Len(levels) |->
            [label |-> levels[g],
             members |-> {spectra[i] : i \in {k \in 1..Len(spectra) : labels[k] = levels[g]}}]]

\* rownames(train_intensity_matrix) <- unique(train_labels): an error when the
\* number of values is not the number of rows (one per average).
RownamesFit(labels, avgSpectra) == Len(Unique(labels)) = Len(avgSpectra)

\* The environment of the run once the labels are assigned: the rownames
\* error stops R between the template file and the training matrix.
EnvWithLabels(upload, env) ==
    LET labels == train_labels(upload.spectra, upload.samples)
    IN  IF /\ env.fault \in {"none", "read_error"}
           /\ ~RownamesFit(labels, averageMassSpectra(upload.spectra, labels))
        THEN [env EXCEPT !.fault = "r_error_late"]
        ELSE env

\* The Phase 1 handler on an upload.
Phase1RunUpload(params, upload, env, check) ==
    Phase1Run(params, upload.train_peaks, EnvWithLabels(upload, env), check)

TrainFiles == {"a.txt", "b.txt", "c.txt"}

Groups == {"G1", "G2"}

SpectraLists ==
    {<<"a.txt">>, <<"a.txt", "b.txt">>, <<"b.txt", "c.txt">>, <<"a.txt", "b.txt", "c.txt">>}

\* Excel sheets: per file no row or a row with its group, and one sheet with
\* two rows for one file.
SampleSheets ==
    {LET HasRow(r) == r.group # "-"
     IN  SelectSeq(<<[file |-> "a.txt", group |-> m["a.txt"]],
                     [file |-> "b.txt", group |-> m["b.txt"]],
                     [file |-> "c.txt", group |-> m["c.txt"]]>>, HasRow) :
        m \in [TrainFiles -> Groups \cup {"-"}]}
    \cup {<<[file |-> "a.txt", group |-> "G1"], [file |-> "a.txt", group |-> "G2"]>>}

\* The peaks of n group averages.
CohortsOfSize(n) == {c \in TrainCohorts \cup {<< <<100010, 101000>> >>} : Len(c) = n}

\* Uploads in which at least one spectrum has a label.
LabelledUploads ==
    UNION {UNION {{[spectra |-> sp, samples |-> sh, train_peaks |-> c] :
                      c \in CohortsOfSize(Len(averageMassSpectra(sp, train_labels(sp, sh))))} :
                  sh \in SampleSheets} :
           sp \in SpectraLists}

InitLabels ==
    /\ template_created = FALSE
    /\ template_data = NoneValue
    /\ processing_params = Absent
    /\ r_packages_installed = "True"
    /\ run = NoRun
    /\ frozen = NoneValue
    /\ input \in {[kind |-> "upload", value |-> u] : u \in LabelledUploads}

NextLabels ==
    /\ run.phase = 0
    /\ Phase1RunUpload(DefaultParams, input.value, QuietEnv, TRUE)

SpecLabels == InitLabels /\ [][NextLabels]_vars

\* The uploaded spectra whose file name has no row in the sheet.
Unmatched(upload) ==
    {upload.spectra[i] : i \in {k \in 1..Len(upload.spectra) :
        \A r \in 1..Len(upload.samples) : upload.samples[r].file # upload.spectra[k]}}

\* C12: in a Phase 1 run every spectrum without an entry in the label map is
\* left out of every average, and when there is such a spectrum the run's
\* output holds a line that reports it.
C12_UnmatchedExcludedAndReported ==
    run.phase = 1 =>
        LET upload     == input.value
            labels     == train_labels(upload.spectra, upload.samples)
            avgSpectra == averageMassSpectra(upload.spectra, labels)
        IN  /\ \A g \in 1..Len(avgSpectra) : avgSpectra[g].members \cap Unmatched(upload) = {}
            /\ Unmatched(upload) # {} => "unmatched_report" \in SeqRange(run.result.stdout)

\* C13: the parameter echo written by a successful Phase 1 run has one entry
\* for every field of the parameters the run used (halfWindowSize, SNR,
\* tolerance, iterations, skip_alignment, relaxed_params), each with the value
\* the run used.
C13_ParameterEchoIsComplete ==
    Phase1Succeeded =>
        /\ Len(run.result.params_csv) = 1
        /\ DOMAIN run.result.params_csv[1] = DOMAIN run.params.value
        /\ \A f \in DOMAIN run.result.params_csv[1] :
               run.result.params_csv[1][f] = run.params.value[f]

\* C14: whenever the relaxed alignment attempt runs, in Phase 1 and in Phase 2,
\* the aligner is called with the run's halfWindowSize, with
\* SNR = max(1.5, SNR - 0.5) and with tolerance = tolerance * k for a k between
\* 1.5 and 2, computed from the run's configured SNR and tolerance.
C14_RelaxedArgumentsFromConfiguration ==
    RanScript =>
        \A k \in 1..Len(run.result.attempts) :
            LET a == run.result.attempts[k]
                p == run.params.value
            IN  a.kind = "relaxed" =>
                    /\ a.evaluated
                    /\ a.halfWindowSize = p.halfWindowSize
                    /\ a.SNR = (IF p.SNR - 5 >= 15 THEN p.SNR - 5 ELSE 15)
                    /\ 2 * a.tolerance >= 3 * p.tolerance
                    /\ 2 * a.tolerance <= 4 * p.tolerance

\* C15: every Phase 2 run works on the template and the parameters that the
\* most recent successful Phase 1 run stored, whatever was done in between
\* short of a full clear: its script is generated from those parameters.
C15_Phase2UsesStoredTemplateAndParams ==
    Phase2Started =>
        /\ run.template = frozen.template_data
        /\ run.params = frozen.processing_params
        /\ \A k \in 1..Len(run.result.attempts) :
               LET a == run.result.attempts[k]
                   p == frozen.processing_params.value
               IN  /\ a.halfWindowSize = p.halfWindowSize
                   /\ a.kind = "standard" => a.SNR = p.SNR /\ a.tolerance = p.tolerance

\* C15 witness: a Phase 2 run aligned with parameters that are not the
\* sidebar's defaults, the ones a successful Phase 1 run stored.
C15_Witness ==
    /\ Phase2Succeeded
    /\ run.params = frozen.processing_params
    /\ run.params.value.SNR = 15
    /\ Len(run.result.attempts) >= 1
    /\ run.result.attempts[1].SNR = 15

\* st.session_state.get(key, None): the value of a key, None for a missing one.
Get(v) == IF v = Absent THEN NoneValue ELSE v

\* C16: over any sequence of Phase 1 runs and clears, whenever template_created
\* is true template_data and processing_params are both present and are what
\* one successful Phase 1 run stored; a clear that keeps the template leaves
\* the three values unchanged; after a full clear template_created is false
\* and template_data is None until the next successful Phase 1 run.
C16_SessionStateInvariant ==
    /\ [](template_created =>
             /\ frozen.kind = "stored"
             /\ template_data.kind = "DataFrame"
             /\ processing_params.kind = "dict"
             /\ template_data = frozen.template_data
             /\ processing_params = frozen.processing_params)
    /\ [](frozen.kind # "stored" => ~template_created /\ template_data = NoneValue)
    /\ [][ClearKeepTemplate =>
              /\ template_created' = template_created
              /\ template_data' = template_data
              /\ Get(processing_params') = Get(processing_params)]_vars
    /\ [][ClearAll => ~template_created' /\ template_data' = NoneValue]_vars
    /\ [][(~template_created /\ template_created') =>
              run'.phase = 1 /\ run'.outcome = "success"]_vars

\* C16 witness: a clear that kept the template has just run on a session that
\* holds the template and the parameters of a successful Phase 1 run.
C16_Witness ==
    /\ run = NoRun
    /\ r_packages_installed = "None"
    /\ template_created
    /\ template_data = frozen.template_data
    /\ processing_params = frozen.processing_params

====
